---- MODULE Spec2Model ----
(***************************************************************************)
(* Model of mc_unit: unit systems, the direct-call conversion protocol,    *)
(* the ConversionProxy and the Constant arithmetic.                        *)
(*                                                                         *)
(* Python floats are modelled as exact reals of the form                   *)
(*      (n / d) * 10^t * c^p.c * G^p.G * kb^p.kb * Msun^p.Msun * MeV^p.MeV *)
(* where c, G, kb, Msun, MeV stand for the five CGS literals of            *)
(* units.py:138-142, taken as independent positive reals.  Every number is *)
(* kept in a unique normal form, so = on numbers is equality of reals.     *)
(* IEEE-754 rounding is outside the model: an equality of the model is an  *)
(* equality of the code "within floating-point tolerance".                 *)
(***************************************************************************)
EXTENDS Integers, Sequences, FiniteSets, TLC

(***************************************************************************)
(* Bounds of the model.                                                    *)
(***************************************************************************)
\* longest list / tuple / array passed to a conversion
MaxLen == 2
\* largest |exponent| passed to Constant.__pow__
MaxExp == 2
\* largest difference of decimal exponents of two addends that is evaluated
MaxShift == 3

(***************************************************************************)
(* Exact arithmetic standing for Python float arithmetic.                  *)
(***************************************************************************)
Sym == {"c", "G", "kb", "Msun", "MeV"}

ZeroP == [s \in Sym |-> 0]

AbsInt(i) == IF i < 0 THEN -i ELSE i

SgnInt(i) == IF i < 0 THEN -1 ELSE IF i = 0 THEN 0 ELSE 1

MinInt(i, j) == IF i < j THEN i ELSE j

RECURSIVE GCD(_, _)
GCD(a, b) == IF b = 0 THEN a ELSE GCD(b, a % b)

RECURSIVE Pow10(_)
Pow10(k) == IF k <= 0 THEN 1 ELSE 10 * Pow10(k - 1)

\* <<n, t>> with n * 10^t unchanged and n not a multiple of ten (n # 0)
RECURSIVE StripNum(_)
StripNum(x) ==
  IF x[1] % 10 = 0 THEN StripNum(<<x[1] \div 10, x[2] + 1>>) ELSE x

\* <<n, d, t>> with (n / d) * 10^t unchanged and d coprime to ten
RECURSIVE StripDen(_)
StripDen(x) ==
  IF x[2] % 10 = 0 THEN StripDen(<<x[1], x[2] \div 10, x[3] - 1>>)
  ELSE IF x[2] % 2 = 0 THEN StripDen(<<x[1] * 5, x[2] \div 2, x[3] - 1>>)
  ELSE IF x[2] % 5 = 0 THEN StripDen(<<x[1] * 2, x[2] \div 5, x[3] - 1>>)
  ELSE x

Zero == [n |-> 0, d |-> 1, t |-> 0, p |-> ZeroP]

\* the normal form of (n / d) * 10^t * (monomial p), d > 0
Norm(n, d, t, p) ==
  IF n = 0 THEN Zero
  ELSE LET g == GCD(AbsInt(n), d)
           a == StripNum(<<n \div g, t>>)
           b == StripDen(<<a[1], d \div g, a[2]>>)
       IN  [n |-> b[1], d |-> b[2], t |-> b[3], p |-> p]

\* the literal n * 10^t, e.g. 1e-5 is Lit(1, -5) and 0.01 is Lit(1, -2)
Lit(n, t) == Norm(n, 1, t, ZeroP)

One == Lit(1, 0)

\* the value of one of the CGS literals
Atom(s) == [n |-> 1, d |-> 1, t |-> 0,
            p |-> [x \in Sym |-> IF x = s THEN 1 ELSE 0]]

IsZero(x) == x.n = 0

\* x * y
Mul(x, y) ==
  Norm(x.n * y.n, x.d * y.d, x.t + y.t, [s \in Sym |-> x.p[s] + y.p[s]])

\* x / y, y # 0
Div(x, y) ==
  Norm(x.n * y.d * SgnInt(y.n), x.d * AbsInt(y.n), x.t - y.t,
       [s \in Sym |-> x.p[s] - y.p[s]])

\* -x, +x, abs(x)
Neg(x) == Norm(-x.n, x.d, x.t, x.p)

Pos(x) == x

AbsNum(x) == Norm(AbsInt(x.n), x.d, x.t, x.p)

\* whether x + y is evaluated: like monomials, decimal exponents close enough
Addable(x, y) ==
  \/ IsZero(x)
  \/ IsZero(y)
  \/ /\ x.p = y.p
     /\ AbsInt(x.t - y.t) <= MaxShift

\* x + y for Addable(x, y)
Add(x, y) ==
  IF IsZero(x) THEN y
  ELSE IF IsZero(y) THEN x
  ELSE LET t0 == MinInt(x.t, y.t)
       IN  Norm(x.n * Pow10(x.t - t0) * y.d + y.n * Pow10(y.t - t0) * x.d,
                x.d * y.d, t0, x.p)

\* x - y for Addable(x, y)
Sub(x, y) == Add(x, Neg(y))

\* x ** k for an integer k (x # 0 when k < 0)
RECURSIVE PowNum(_, _)
PowNum(x, k) ==
  IF k = 0 THEN One
  ELSE IF k < 0 THEN Div(One, PowNum(x, -k))
  ELSE Mul(x, PowNum(x, k - 1))

(***************************************************************************)
(* common.py                                                               *)
(***************************************************************************)
POW2(x) == Mul(x, x)

POW3(x) == Mul(Mul(x, x), x)

POW4(x) == Mul(POW2(x), POW2(x))

\* the frozen dataclass Constant(value, unit)
Constant(value, unit) == [kind |-> "Constant", value |-> value, unit |-> unit]

(***************************************************************************)
(* units.py: the five concrete unit systems.  Each is the record of the    *)
(* attributes its __init__ assigns.                                        *)
(***************************************************************************)
CGS ==
  [c                  |-> Constant(Atom("c"), "cm s^-1"),        \* 2.99792458e10
   G                  |-> Constant(Atom("G"), "cm^3 g^-1 s^-2"), \* 6.67408e-8
   kb                 |-> Constant(Atom("kb"), "erg K^-1"),      \* 1.38064852e-16
   Msun               |-> Constant(Atom("Msun"), "g"),           \* 1.98848e33
   MeV                |-> Constant(Atom("MeV"), "erg"),          \* 1.6021766208e-6
   length             |-> Constant(Lit(1, 0), "cm"),
   time               |-> Constant(Lit(1, 0), "s"),
   density            |-> Constant(Lit(1, 0), "g cm^-3"),
   mass               |-> Constant(Lit(1, 0), "g"),
   energy             |-> Constant(Lit(1, 0), "erg"),
   pressure           |-> Constant(Lit(1, 0), "erg cm^-3"),
   temperature        |-> Constant(Lit(1, 0), "K"),
   chemical_potential |-> Constant(Lit(1, 0), "erg")]

SI ==
  LET cgs == CGS IN
  [c    |-> Constant(Div(cgs.c.value, Lit(100, 0)), "m s^-1"),
   G    |-> Constant(Div(Mul(cgs.G.value, POW3(Div(Lit(1, 0), Lit(100, 0)))),
                         Div(Lit(1, 0), Lit(1000, 0))),
                     "m^3 kg^-1 s^-2"),
   kb   |-> Constant(Mul(cgs.kb.value, Lit(1, -7)), "J K^-1"),
   Msun |-> Constant(Div(cgs.Msun.value, Lit(1000, 0)), "kg"),
   MeV  |-> Constant(Mul(cgs.MeV.value, Lit(1, -7)), "J"),
   length             |-> Constant(Lit(1, -2), "m"),
   time               |-> Constant(Lit(1, 0), "s"),
   density            |-> Constant(Lit(1000, 0), "kg m^-3"),
   mass               |-> Constant(Lit(1, -3), "kg"),
   energy             |-> Constant(Lit(1, -7), "J"),
   pressure           |-> Constant(Lit(1, -1), "Pa"),
   temperature        |-> Constant(Lit(1, 0), "K"),
   chemical_potential |-> Constant(Lit(1, -7), "J")]

GeometricKilometer ==
  LET cgs == CGS IN
  [c    |-> Constant(Lit(1, 0), "-"),
   G    |-> Constant(Lit(1, 0), "-"),
   kb   |-> Constant(Lit(1, 0), "-"),
   Msun |-> Constant(Mul(Div(Mul(cgs.Msun.value, cgs.G.value),
                             POW2(cgs.c.value)), Lit(1, -5)), "km"),
   MeV  |-> Constant(Mul(Div(Mul(cgs.MeV.value, cgs.G.value),
                             POW4(cgs.c.value)), Lit(1, -5)), "km"),
   length             |-> Constant(Lit(1, -5), "km"),
   time               |-> Constant(Mul(cgs.c.value, Lit(1, -5)), "km"),
   density            |-> Constant(Lit(1, 15), "km^-3"),
   mass               |-> Constant(Mul(Div(cgs.G.value, POW2(cgs.c.value)),
                                       Lit(1, -5)), "km"),
   energy             |-> Constant(Mul(Div(cgs.G.value, POW4(cgs.c.value)),
                                       Lit(1, -5)), "km"),
   pressure           |-> Constant(Mul(Div(cgs.G.value, POW4(cgs.c.value)),
                                       Lit(1, 10)), "km^-2"),
   temperature        |-> Constant(Mul(Div(Mul(cgs.kb.value, cgs.G.value),
                                           POW4(cgs.c.value)), Lit(1, -5)),
                                   "km"),
   chemical_potential |-> Constant(Div(cgs.kb.value, cgs.MeV.value), "MeV")]

GeometricSolar ==
  LET cgs == CGS IN
  [c    |-> Constant(Lit(1, 0), "-"),
   G    |-> Constant(Lit(1, 0), "-"),
   kb   |-> Constant(Lit(1, 0), "-"),
   Msun |-> Constant(Lit(1, 0), "-"),
   MeV  |-> Constant(Div(cgs.MeV.value, POW2(cgs.c.value)), "Msun"),
   length             |-> Constant(Div(POW2(cgs.c.value),
                                       Mul(cgs.G.value, cgs.Msun.value)),
                                   "Msun"),
   time               |-> Constant(Div(POW3(cgs.c.value),
                                       Mul(cgs.G.value, cgs.Msun.value)),
                                   "Msun"),
   density            |-> Constant(POW3(Div(Mul(cgs.G.value, cgs.Msun.value),
                                            POW2(cgs.c.value))), "Msun^-3"),
   mass               |-> Constant(Div(Lit(1, 0), cgs.Msun.value), "Msun"),
   energy             |-> Constant(Div(Lit(1, 0),
                                       Mul(cgs.Msun.value, POW2(cgs.c.value))),
                                   "Msun"),
   pressure           |-> Constant(Mul(POW3(Div(cgs.G.value, POW2(cgs.c.value))),
                                       POW2(Div(cgs.Msun.value, cgs.c.value))),
                                   "Msun^-2"),
   temperature        |-> Constant(Div(cgs.kb.value, cgs.MeV.value), "MeV"),
   chemical_potential |-> Constant(Div(cgs.kb.value, cgs.MeV.value), "MeV")]

Nuclear ==
  LET cgs == CGS IN
  [c    |-> Constant(Lit(1, 0), "-"),
   G    |-> Constant(Mul(Div(Mul(cgs.G.value, cgs.MeV.value),
                             POW4(cgs.c.value)), Lit(1, 13)), "fm"),
   kb   |-> Constant(Lit(1, 0), "-"),
   Msun |-> Constant(Div(Mul(cgs.Msun.value, POW2(cgs.c.value)),
                         cgs.MeV.value), "MeV"),
   MeV  |-> Constant(Lit(1, 0), "MeV"),
   length             |-> Constant(Lit(1, 13), "fm"),
   time               |-> Constant(Mul(cgs.c.value, Lit(1, 13)), "fm"),
   density            |-> Constant(Lit(1, -39), "fm^-3"),
   mass               |-> Constant(Div(POW2(cgs.c.value), cgs.MeV.value), "MeV"),
   energy             |-> Constant(Div(Lit(1, 0), cgs.MeV.value), "MeV"),
   pressure           |-> Constant(Div(Lit(1, -39), cgs.MeV.value),
                                   "MeV fm^-3"),
   temperature        |-> Constant(Div(cgs.kb.value, cgs.MeV.value), "MeV"),
   chemical_potential |-> Constant(Div(cgs.kb.value, cgs.MeV.value), "MeV")]

\* the module-level singletons, by name
SystemNames ==
  {"us_CGS", "us_SI", "us_GeometricKilometer", "us_GeometricSolar",
   "us_Nuclear"}

Instantiate(name) ==
  CASE name = "us_CGS" -> CGS
    [] name = "us_SI" -> SI
    [] name = "us_GeometricKilometer" -> GeometricKilometer
    [] name = "us_GeometricSolar" -> GeometricSolar
    [] name = "us_Nuclear" -> Nuclear

(***************************************************************************)
(* Python values.  Every value is a record with a kind (its type).         *)
(***************************************************************************)
NoneV == [kind |-> "None"]

Str(s) == [kind |-> "str", s |-> s]

\* a float
Scalar(x) == [kind |-> "scalar", x |-> x]

\* a list or a tuple of floats (kind is "list" or "tuple")
Sequence(kind, items) == [kind |-> kind, items |-> items]

\* a numpy array: its shape and its elements in row-major order
NDArray(shape, items) == [kind |-> "ndarray", shape |-> shape, items |-> items]

\* a reference to one of the module-level unit systems
Ref(name) == [kind |-> "UnitSystem", name |-> name]

\* some object that is neither None nor a UnitSystem (a dict of factors, say)
Obj == [kind |-> "object"]

\* an exception leaving the call
Raise(exc, msg) == [kind |-> "raise", exc |-> exc, msg |-> msg]

isinstance_UnitSystem(x) == x.kind = "UnitSystem"

isinstance_Constant(x) == x.kind = "Constant"

(***************************************************************************)
(* units.py: UnitSystem.  S is the heap: the attributes of each system.    *)
(***************************************************************************)
conv_length(S, src, tar) ==
  Div(S[tar.name].length.value, S[src.name].length.value)

conv_time(S, src, tar) ==
  Div(S[tar.name].time.value, S[src.name].time.value)

\* conv_velocity with the time ratio upside down
conv_velocity_inverted(S, src, tar) ==
  Div(Mul(Div(S[tar.name].length.value, S[src.name].length.value),
          S[tar.name].time.value),
      S[src.name].time.value)

conv_velocity(S, src, tar) ==
  Div(Mul(Div(S[tar.name].length.value, S[src.name].length.value),
          S[src.name].time.value),
      S[tar.name].time.value)

conv_density(S, src, tar) ==
  Div(S[tar.name].density.value, S[src.name].density.value)

conv_mass(S, src, tar) ==
  Div(S[tar.name].mass.value, S[src.name].mass.value)

\* conv_energy dividing by the source's mass factor
conv_energy_mixed(S, src, tar) ==
  Div(S[tar.name].energy.value, S[src.name].mass.value)

conv_energy(S, src, tar) ==
  Div(S[tar.name].energy.value, S[src.name].energy.value)

conv_entropy(S, src, tar) ==
  Div(S[tar.name].kb.value, S[src.name].kb.value)

conv_pressure(S, src, tar) ==
  Div(S[tar.name].pressure.value, S[src.name].pressure.value)

conv_temperature(S, src, tar) ==
  Div(S[tar.name].temperature.value, S[src.name].temperature.value)

conv_chemical_potential(S, src, tar) ==
  Div(S[tar.name].chemical_potential.value,
      S[src.name].chemical_potential.value)

\* the factor dump without its last name
dump_names_short ==
  {"c", "G", "kb", "Msun", "MeV",
   "length", "time", "density", "mass", "energy",
   "pressure", "temperature"}

\* the names of the factor dump of __call__ with no target
dump_names ==
  {"c", "G", "kb", "Msun", "MeV",
   "length", "time", "density", "mass", "energy",
   "pressure", "temperature", "chemical_potential"}

\* the keys of quantity_map
quantity_names ==
  {"length", "time", "velocity", "density", "mass", "energy", "entropy",
   "pressure", "temperature", "chemical_potential"}

\* quantity_map[quantity](target_system)
quantity_map(S, self, quantity, target_system) ==
  CASE quantity = "length" -> conv_length(S, self, target_system)
    [] quantity = "time" -> conv_time(S, self, target_system)
    [] quantity = "velocity" -> conv_velocity(S, self, target_system)
    [] quantity = "density" -> conv_density(S, self, target_system)
    [] quantity = "mass" -> conv_mass(S, self, target_system)
    [] quantity = "energy" -> conv_energy(S, self, target_system)
    [] quantity = "entropy" -> conv_entropy(S, self, target_system)
    [] quantity = "pressure" -> conv_pressure(S, self, target_system)
    [] quantity = "temperature" -> conv_temperature(S, self, target_system)
    [] quantity = "chemical_potential" ->
         conv_chemical_potential(S, self, target_system)

\* the effect of a call: what it returns or raises, the caller's value object
\* after the call, and whether a conversion factor was looked up
Effect(ret, value, looked) == [ret |-> ret, value |-> value, looked |-> looked]

\* apply_factor building a list for every sequence
apply_factor_as_list(value, factor) ==
  Effect(
    IF value.kind = "ndarray"
      THEN NDArray(value.shape,
                   [i \in DOMAIN value.items |-> Mul(value.items[i], factor)])
    ELSE IF value.kind \in {"list", "tuple"}
      THEN Sequence("list",
                    [i \in DOMAIN value.items |-> Mul(value.items[i], factor)])
    ELSE Scalar(Mul(value.x, factor)),
    value, TRUE)

\* apply_factor scaling lists and arrays in place
apply_factor_in_place(value, factor) ==
  LET scaled ==
        IF value.kind = "ndarray"
          THEN NDArray(value.shape,
                       [i \in DOMAIN value.items |->
                          Mul(value.items[i], factor)])
        ELSE IF value.kind \in {"list", "tuple"}
          THEN Sequence(value.kind,
                        [i \in DOMAIN value.items |->
                           Mul(value.items[i], factor)])
        ELSE Scalar(Mul(value.x, factor))
  IN  Effect(scaled,
             IF value.kind \in {"list", "ndarray"} THEN scaled ELSE value,
             TRUE)

\* "apply factor and preserve input type"
apply_factor(value, factor) ==
  Effect(
    IF value.kind = "ndarray"
      THEN NDArray(value.shape,
                   [i \in DOMAIN value.items |-> Mul(value.items[i], factor)])
    ELSE IF value.kind \in {"list", "tuple"}
      THEN Sequence(value.kind,
                    [i \in DOMAIN value.items |-> Mul(value.items[i], factor)])
    ELSE Scalar(Mul(value.x, factor)),
    value, TRUE)

\* ConversionProxy.__init__ checking the source only
ConversionProxy_init_source_only(source_unit, target_unit) ==
  IF ~isinstance_UnitSystem(source_unit)
    THEN Raise("ValueError", "source_unit must be a UnitSystem")
  ELSE [kind |-> "ConversionProxy",
        source_unit |-> source_unit, target_unit |-> target_unit]

\* ConversionProxy.__init__: the new proxy, or the exception
ConversionProxy_init(source_unit, target_unit) ==
  IF ~isinstance_UnitSystem(source_unit)
    THEN Raise("ValueError", "source_unit must be a UnitSystem")
  ELSE IF ~isinstance_UnitSystem(target_unit)
    THEN Raise("ValueError", "target_unit must be a UnitSystem")
  ELSE [kind |-> "ConversionProxy",
        source_unit |-> source_unit, target_unit |-> target_unit]

\* UnitSystem.__call__ asking for the value before it looks at the quantity
UnitSystem_call_value_first(S, self, target_system, quantity, value) ==
  IF target_system = NoneV
    THEN Effect([kind |-> "dict",
                 items |-> [name \in dump_names |-> S[self.name][name]]],
                value, FALSE)
  ELSE IF quantity = NoneV
    THEN Effect(ConversionProxy_init(self, target_system), value, FALSE)
  ELSE IF value = NoneV
    THEN Effect(Raise("ValueError", "Must provide a value to convert"),
                value, FALSE)
  ELSE IF quantity.s \notin quantity_names
    THEN Effect(Raise("ValueError", "Unknown quantity"), value, FALSE)
  ELSE IF ~isinstance_UnitSystem(target_system)
    THEN Effect(Raise("AttributeError", "no such attribute"), value, TRUE)
  ELSE apply_factor(value,
                    quantity_map(S, self, quantity.s, target_system))

\* UnitSystem.__call__(self, target_system, quantity, value)
UnitSystem_call(S, self, target_system, quantity, value) ==
  IF target_system = NoneV
    THEN Effect([kind |-> "dict",
                 items |-> [name \in dump_names |-> S[self.name][name]]],
                value, FALSE)
  ELSE IF quantity = NoneV
    THEN Effect(ConversionProxy_init(self, target_system), value, FALSE)
  ELSE IF quantity.s \notin quantity_names
    THEN Effect(Raise("ValueError", "Unknown quantity"), value, FALSE)
  ELSE IF value = NoneV
    THEN Effect(Raise("ValueError", "Must provide a value to convert"),
                value, FALSE)
  ELSE IF ~isinstance_UnitSystem(target_system)
    \* tar.<factor> of an object that has no such attribute
    THEN Effect(Raise("AttributeError", "no such attribute"), value, TRUE)
  ELSE apply_factor(value,
                    quantity_map(S, self, quantity.s, target_system))

\* ConversionProxy.__getattr__: the closure over (self, quantity)
ConversionProxy_getattr(self, quantity) ==
  [kind |-> "converter", self |-> self, quantity |-> quantity]

\* the closure's body with the endpoints swapped
converter_swapped(S, closure, value) ==
  UnitSystem_call(S, closure.self.target_unit, closure.self.source_unit,
                  Str(closure.quantity), value)

\* the closure's body: self.source_unit(self.target_unit, quantity, value)
converter(S, closure, value) ==
  UnitSystem_call(S, closure.self.source_unit, closure.self.target_unit,
                  Str(closure.quantity), value)

\* the attributes __init__ stores on a proxy; __getattr__ is only reached
\* for names the normal lookup does not find
proxy_fields == {"source_unit", "target_unit"}

\* obj.name
getattr(obj, name) ==
  IF obj.kind = "ConversionProxy"
    THEN IF name \in proxy_fields
           THEN IF name = "source_unit" THEN obj.source_unit
                ELSE obj.target_unit
         ELSE ConversionProxy_getattr(obj, name)
  ELSE Raise("AttributeError", "no such attribute")

\* f(value) for the object an attribute access gave
call_attribute(S, f, value) ==
  IF f.kind = "converter" THEN converter(S, f, value)
  ELSE IF f.kind = "UnitSystem"
    THEN Effect(UnitSystem_call(S, f, value, NoneV, NoneV).ret, value, FALSE)
  ELSE Effect(Raise("TypeError", "not callable"), value, FALSE)

(***************************************************************************)
(* common.py: the methods of Constant.  A float operation that Python      *)
(* refuses gives the exception instead of a number.                        *)
(***************************************************************************)
Failed(v) == v.kind = "raise"

\* x / y of two floats
truediv(x, y) ==
  IF IsZero(y) THEN Raise("ZeroDivisionError", "float division by zero")
  ELSE [kind |-> "float", x |-> Div(x, y)]

\* whether the float e is an integer of the range the model evaluates
SmallInt(e) == e.d = 1 /\ e.t >= 0 /\ AbsInt(e.n) * Pow10(e.t) <= MaxExp

\* x ** exponent for a float x; exponent is any Python value
pow(x, exponent) ==
  IF exponent.kind # "scalar"
    THEN Raise("TypeError", "unsupported operand type(s) for **")
  ELSE LET k == exponent.x.n * Pow10(exponent.x.t) IN
       IF IsZero(x) /\ k < 0
         THEN Raise("ZeroDivisionError", "0.0 cannot be raised to a negative power")
       ELSE [kind |-> "float", x |-> PowNum(x, k)]

\* Constant(v, unit) for the outcome v of a float operation
New(v, unit) == IF Failed(v) THEN v ELSE Constant(v.x, unit)

Constant_neg(self) == Constant(Neg(self.value), self.unit)

Constant_pos(self) == Constant(Pos(self.value), self.unit)

Constant_abs(self) == Constant(AbsNum(self.value), self.unit)

Constant_add(self, other) ==
  IF isinstance_Constant(other)
    THEN Constant(Add(self.value, other.value), self.unit)
  ELSE Constant(Add(self.value, other.x), self.unit)

Constant_radd(self, other) == Constant_add(self, other)

Constant_sub(self, other) ==
  IF isinstance_Constant(other)
    THEN Constant(Sub(self.value, other.value), self.unit)
  ELSE Constant(Sub(self.value, other.x), self.unit)

\* __rsub__ keeping the label of the left operand
Constant_rsub_left_label(self, other) ==
  IF isinstance_Constant(other)
    THEN Constant(Sub(other.value, self.value), other.unit)
  ELSE Constant(Sub(other.x, self.value), self.unit)

Constant_rsub(self, other) ==
  IF isinstance_Constant(other)
    THEN Constant(Sub(other.value, self.value), self.unit)
  ELSE Constant(Sub(other.x, self.value), self.unit)

Constant_mul(self, other) ==
  IF isinstance_Constant(other)
    THEN Constant(Mul(self.value, other.value), self.unit)
  ELSE Constant(Mul(self.value, other.x), self.unit)

Constant_rmul(self, other) == Constant_mul(self, other)

Constant_truediv(self, other) ==
  IF isinstance_Constant(other)
    THEN New(truediv(self.value, other.value), self.unit)
  ELSE New(truediv(self.value, other.x), self.unit)

Constant_rtruediv(self, other) ==
  IF isinstance_Constant(other)
    THEN New(truediv(other.value, self.value), self.unit)
  ELSE New(truediv(other.x, self.value), self.unit)

Constant_pow(self, exponent) == New(pow(self.value, exponent), self.unit)

(***************************************************************************)
(* The callers.  A program is one expression a caller evaluates:           *)
(*   call       self(target, quantity, value)                              *)
(*   sugar      self(target).name(value)                                   *)
(*   ctor       ConversionProxy(source, target).name(value)                *)
(*   roundtrip  target(self, quantity, self(target, quantity, value))      *)
(*   const      self.method(other) for a Constant self                     *)
(***************************************************************************)
Systems == {Ref(n) : n \in SystemNames}

\* what is passed where a unit system is expected
Endpoints == Systems \cup {NoneV, Obj}

Scalars == {Zero, One, Lit(-3, 0), Lit(25, -1)}

Elems == {Lit(-3, 0), Lit(25, -1)}

Seqs == UNION {[1..m -> Elems] : m \in 0..MaxLen}

Containers ==
  {Sequence(k, s) : k \in {"list", "tuple"}, s \in Seqs}
    \cup {NDArray(<<Len(s)>>, s) : s \in Seqs}
    \cup {NDArray(<<1, Len(s)>>, s) : s \in Seqs}

Numbers == {Scalar(x) : x \in Scalars} \cup Containers

Values == Numbers \cup {NoneV}

\* a few values of each kind, for the programs that are not about containers
NumbersFew ==
  {Scalar(Lit(25, -1)), Scalar(Zero), Sequence("list", <<Lit(-3, 0)>>),
   Sequence("tuple", <<Lit(25, -1)>>), NDArray(<<1>>, <<Lit(25, -1)>>)}

ValuesFew == NumbersFew \cup {NoneV}

\* the names used as a quantity argument
QuantityArgs == {Str(q) : q \in quantity_names \cup {"bogus"}}

\* the names used as an attribute of a proxy
AttributeNames == quantity_names \cup {"bogus"} \cup proxy_fields

CallPrograms ==
  [kind : {"call"}, self : Systems, target : Endpoints,
   quantity : QuantityArgs \cup {NoneV}, value : Values]

SugarPrograms ==
  [kind : {"sugar"}, self : Systems, target : Endpoints,
   name : AttributeNames, value : ValuesFew]

CtorPrograms ==
  [kind : {"ctor"}, source : Endpoints, target : Endpoints,
   name : AttributeNames, value : ValuesFew]

RoundtripPrograms ==
  [kind : {"roundtrip"}, self : Systems, target : Systems,
   quantity : QuantityArgs, value : NumbersFew \cup {Scalar(Lit(-3, 0))}]

UnaryMethods == {"__neg__", "__pos__", "__abs__"}

BinaryMethods ==
  {"__add__", "__radd__", "__sub__", "__rsub__", "__mul__", "__rmul__",
   "__truediv__", "__rtruediv__", "__pow__"}

ConstOperands ==
  {Constant(Lit(2, 0), "u"), Constant(Lit(3, 0), "w"), Constant(Zero, "u"),
   Constant(Lit(-25, -1), "w"),
   SI.length, GeometricSolar.mass, Nuclear.density}

PlainOperands ==
  {Scalar(Lit(25, -1))} \cup {Scalar(Lit(k, 0)) : k \in (-MaxExp)..MaxExp}

\* the float of an operand
OperandValue(o) == IF isinstance_Constant(o) THEN o.value ELSE o.x

\* the operations whose float arithmetic the model evaluates
Evaluated(pr) ==
  CASE pr.method \in {"__add__", "__radd__", "__sub__", "__rsub__"} ->
         Addable(pr.self.value, OperandValue(pr.other))
    [] pr.method = "__pow__" ->
         isinstance_Constant(pr.other) \/ SmallInt(pr.other.x)
    [] OTHER -> TRUE

ConstPrograms ==
  [kind : {"const"}, method : UnaryMethods, self : ConstOperands,
   other : {NoneV}]
    \cup {pr \in [kind : {"const"}, method : BinaryMethods,
                  self : ConstOperands,
                  other : ConstOperands \cup PlainOperands] : Evaluated(pr)}

Programs ==
  CallPrograms \cup SugarPrograms \cup CtorPrograms \cup RoundtripPrograms
    \cup ConstPrograms

\* where a program starts
Entry(pr) ==
  CASE pr.kind \in {"call", "sugar", "roundtrip"} -> "call"
    [] pr.kind = "ctor" -> "new"
    [] pr.kind = "const" -> "const"

\* the value object the caller holds and passes
Argument(pr) == IF pr.kind = "const" THEN NoneV ELSE pr.value

(***************************************************************************)
(* State.                                                                  *)
(***************************************************************************)
VARIABLES
  systems,  \* the attributes of the five module-level unit systems
  prog,     \* the expression being evaluated
  pc,       \* the step it is at
  proxy,    \* the ConversionProxy constructed, or None
  held,     \* the object the attribute access gave, or None
  ret,      \* what the last step returned or raised
  arg,      \* the caller's value object
  looked    \* whether a conversion factor has been looked up

vars == <<systems, prog, pc, proxy, held, ret, arg, looked>>

\* the module-level instantiation of units.py
us == [n \in SystemNames |-> Instantiate(n)]

Start(pr) ==
  /\ prog = pr
  /\ pc = Entry(pr)
  /\ proxy = NoneV
  /\ held = NoneV
  /\ ret = NoneV
  /\ arg = Argument(pr)
  /\ looked = FALSE

Init ==
  /\ systems = us
  /\ \E pr \in Programs : Start(pr)

IsNumber(v) == v.kind \in {"scalar", "list", "tuple", "ndarray"}

\* UnitSystem.__call__, as the first call of a program or as the call back
Call ==
  /\ pc \in {"call", "back"}
  /\ LET e == IF pc = "back"
                THEN UnitSystem_call(systems, prog.target, prog.self,
                                     prog.quantity, ret)
              ELSE IF prog.kind = "sugar"
                THEN UnitSystem_call(systems, prog.self, prog.target,
                                     NoneV, NoneV)
              ELSE UnitSystem_call(systems, prog.self, prog.target,
                                   prog.quantity, prog.value)
     IN  /\ ret' = e.ret
         /\ looked' = e.looked
         /\ arg' = IF pc = "call" /\ prog.kind # "sugar" THEN e.value ELSE arg
         /\ proxy' = IF e.ret.kind = "ConversionProxy" THEN e.ret ELSE proxy
         /\ pc' = IF pc = "back" \/ prog.kind = "call" \/ Failed(e.ret)
                    THEN "done"
                  ELSE IF prog.kind = "sugar" THEN "getattr"
                  ELSE IF IsNumber(e.ret) THEN "back"
                  ELSE "done"
  /\ UNCHANGED <<systems, prog, held>>

\* ConversionProxy(source, target)
NewProxy ==
  /\ pc = "new"
  /\ LET r == ConversionProxy_init(prog.source, prog.target)
     IN  /\ ret' = r
         /\ proxy' = IF Failed(r) THEN proxy ELSE r
         /\ pc' = IF Failed(r) THEN "done" ELSE "getattr"
  /\ UNCHANGED <<systems, prog, held, arg, looked>>

\* <result of the first step>.name
GetAttr ==
  /\ pc = "getattr"
  /\ LET h == getattr(ret, prog.name)
     IN  /\ held' = IF Failed(h) THEN held ELSE h
         /\ ret' = IF Failed(h) THEN h ELSE ret
         /\ pc' = IF Failed(h) THEN "done" ELSE "apply"
  /\ UNCHANGED <<systems, prog, proxy, arg, looked>>

\* <the attribute>(value)
Apply ==
  /\ pc = "apply"
  /\ LET e == call_attribute(systems, held, prog.value)
     IN  /\ ret' = e.ret
         /\ looked' = e.looked
         /\ arg' = e.value
         /\ proxy' = IF e.ret.kind = "ConversionProxy" THEN e.ret ELSE proxy
         /\ pc' = "done"
  /\ UNCHANGED <<systems, prog, held>>

\* one method of Constant
Method(name, result) ==
  /\ pc = "const"
  /\ prog.method = name
  /\ ret' = result
  /\ pc' = "done"
  /\ UNCHANGED <<systems, prog, proxy, held, arg, looked>>

Negate == Method("__neg__", Constant_neg(prog.self))

Positive == Method("__pos__", Constant_pos(prog.self))

Absolute == Method("__abs__", Constant_abs(prog.self))

Addition == Method("__add__", Constant_add(prog.self, prog.other))

RAddition == Method("__radd__", Constant_radd(prog.self, prog.other))

Subtraction == Method("__sub__", Constant_sub(prog.self, prog.other))

RSubtraction == Method("__rsub__", Constant_rsub(prog.self, prog.other))

Multiplication == Method("__mul__", Constant_mul(prog.self, prog.other))

RMultiplication == Method("__rmul__", Constant_rmul(prog.self, prog.other))

TrueDivision == Method("__truediv__", Constant_truediv(prog.self, prog.other))

RTrueDivision ==
  Method("__rtruediv__", Constant_rtruediv(prog.self, prog.other))

Power == Method("__pow__", Constant_pow(prog.self, prog.other))

Next ==
  \/ Call
  \/ NewProxy
  \/ GetAttr
  \/ Apply
  \/ Negate
  \/ Positive
  \/ Absolute
  \/ Addition
  \/ RAddition
  \/ Subtraction
  \/ RSubtraction
  \/ Multiplication
  \/ RMultiplication
  \/ TrueDivision
  \/ RTrueDivision
  \/ Power

Spec == Init /\ [][Next]_vars

(***************************************************************************)
(* A caller that evaluates one expression after the other.                 *)
(***************************************************************************)
SeqSystems == {Ref("us_CGS"), Ref("us_GeometricSolar")}

SeqEndpoints == {Ref("us_SI"), Ref("us_Nuclear"), NoneV, Obj}

SeqQuantities == {Str("density"), Str("velocity"), Str("bogus")}

SeqNames == {"density", "source_unit"}

SeqOperands == {SI.length, GeometricSolar.mass}

ProgramsSeq ==
  [kind : {"call"}, self : SeqSystems, target : SeqEndpoints,
   quantity : SeqQuantities \cup {NoneV}, value : ValuesFew]
    \cup [kind : {"sugar"}, self : SeqSystems, target : SeqEndpoints,
          name : SeqNames, value : ValuesFew]
    \cup [kind : {"ctor"}, source : SeqEndpoints, target : SeqEndpoints,
          name : SeqNames, value : ValuesFew]
    \cup [kind : {"roundtrip"}, self : SeqSystems, target : {Ref("us_SI")},
          quantity : SeqQuantities, value : NumbersFew]
    \cup [kind : {"const"}, method : UnaryMethods, self : SeqOperands,
          other : {NoneV}]
    \cup {pr \in [kind : {"const"}, method : BinaryMethods,
                  self : SeqOperands,
                  other : SeqOperands \cup PlainOperands] : Evaluated(pr)}

\* the caller goes on to its next expression
Restart ==
  /\ pc = "done"
  /\ \E pr \in ProgramsSeq :
       /\ prog' = pr
       /\ pc' = Entry(pr)
       /\ arg' = Argument(pr)
  /\ proxy' = NoneV
  /\ held' = NoneV
  /\ ret' = NoneV
  /\ looked' = FALSE
  /\ UNCHANGED systems

InitSeq ==
  /\ systems = us
  /\ \E pr \in ProgramsSeq : Start(pr)

NextSeq == Next \/ Restart

SpecSeq == InitSeq /\ [][NextSeq]_vars

(***************************************************************************)
(* The properties.                                                         *)
(***************************************************************************)
Done == pc = "done"

\* the eight quantities stored as a factor of their own name
DirectQuantities ==
  {"length", "time", "density", "mass", "energy", "pressure", "temperature",
   "chemical_potential"}

\* the closed quantity set
ClosedQuantities == DirectQuantities \cup {"velocity", "entropy"}

\* the value of attribute a of system s
Attr(s, a) == systems[s.name][a].value

\* the conversion factor from src to tar as the specification states it
StatedFactor(src, tar, q) ==
  IF q \in DirectQuantities THEN Div(Attr(tar, q), Attr(src, q))
  ELSE IF q = "velocity"
    THEN Mul(Div(Attr(tar, "length"), Attr(src, "length")),
             Div(Attr(src, "time"), Attr(tar, "time")))
  ELSE Div(Attr(tar, "kb"), Attr(src, "kb"))

UnknownQuantity == Raise("ValueError", "Unknown quantity")

ValueRequired == Raise("ValueError", "Must provide a value to convert")

\* a direct call between two unit systems with a quantity argument
DirectCall ==
  /\ Done
  /\ prog.kind = "call"
  /\ isinstance_UnitSystem(prog.target)
  /\ prog.quantity # NoneV

\* C1: a direct call source(target, quantity, v) between two of the five
\* systems with a scalar v returns v * f, f being target.Q / source.Q for the
\* eight stored quantities, the length factor divided by the time factor for
\* velocity and target.kb / source.kb for entropy; for any other quantity name
\* it raises the unknown-quantity error.
C1_ScalarConversion ==
  (DirectCall /\ prog.value.kind = "scalar") =>
    IF prog.quantity.s \in ClosedQuantities
      THEN /\ ret = Scalar(Mul(prog.value.x,
                               StatedFactor(prog.self, prog.target,
                                            prog.quantity.s)))
           /\ prog.quantity.s = "velocity" =>
                ret = Scalar(Mul(prog.value.x,
                                 Div(StatedFactor(prog.self, prog.target,
                                                  "length"),
                                     StatedFactor(prog.self, prog.target,
                                                  "time"))))
    ELSE ret = UnknownQuantity

\* CGS -> GeometricSolar, velocity, 2.5: the result is 2.5 / c
C1_Witness ==
  /\ DirectCall
  /\ prog.self = Ref("us_CGS")
  /\ prog.target = Ref("us_GeometricSolar")
  /\ prog.quantity = Str("velocity")
  /\ prog.value = Scalar(Lit(25, -1))
  /\ ret = Scalar(Div(Lit(25, -1), Atom("c")))

Converted ==
  /\ Done
  /\ prog.kind = "call"
  /\ prog.target # NoneV
  /\ prog.quantity # NoneV
  /\ ~Failed(ret)

\* C3: type preservation: a successful conversion returns the container kind
\* it was given: an array of the same shape, a list or a tuple of the same
\* length, with element i the input's element i times the factor, or a scalar
\* for a scalar.
C3_TypePreservation ==
  Converted =>
    /\ ret.kind = prog.value.kind
    /\ ret.kind = "ndarray" => ret.shape = prog.value.shape
    /\ ret.kind \in {"list", "tuple", "ndarray"} =>
         /\ Len(ret.items) = Len(prog.value.items)
         /\ \A i \in 1..Len(ret.items) :
              ret.items[i] =
                Mul(prog.value.items[i],
                    StatedFactor(prog.self, prog.target, prog.quantity.s))

\* a tuple of MaxLen energies, CGS -> Nuclear
C3_Witness ==
  /\ Converted
  /\ prog.self = Ref("us_CGS")
  /\ prog.target = Ref("us_Nuclear")
  /\ prog.quantity = Str("energy")
  /\ prog.value.kind = "tuple"
  /\ Len(prog.value.items) = MaxLen
  /\ ret.kind = "tuple"
  /\ ret # prog.value

\* a call with a target and a quantity and no value
NoValueCall ==
  /\ Done
  /\ prog.kind = "call"
  /\ prog.target # NoneV
  /\ prog.quantity # NoneV
  /\ prog.value = NoneV

\* C4 as stated: a call with a target and a quantity and no value raises the
\* missing-value error, whether or not the quantity is in the closed set.
C4_AsStated == NoValueCall => ret = ValueRequired

\* C4 as amended: a call with a target and a quantity and no value raises the
\* missing-value error when the quantity is in the closed set and the
\* unknown-quantity error when it is not; nothing is converted in either case.
C4_MissingValue ==
  NoValueCall =>
    /\ ret = IF prog.quantity.s \in ClosedQuantities THEN ValueRequired
             ELSE UnknownQuantity
    /\ ~looked

C4_Witness ==
  /\ NoValueCall
  /\ prog.quantity = Str("mass")
  /\ ret = ValueRequired

\* a call with no target
DumpCall ==
  /\ Done
  /\ prog.kind = "call"
  /\ prog.target = NoneV

\* C5 as stated: a call with no target returns a mapping of exactly 12 keys.
C5_AsStated ==
  DumpCall => (ret.kind = "dict" /\ Cardinality(DOMAIN ret.items) = 12)

\* C5 as amended: a call with no target, whatever quantity and value are
\* passed, returns a mapping with the fixed set of 13 keys (the five base
\* constants and the eight quantity factors), each mapped to the system's
\* attribute of that name, and changes no state.
C5_FactorDump ==
  DumpCall =>
    /\ ret.kind = "dict"
    /\ DOMAIN ret.items =
         {"c", "G", "kb", "Msun", "MeV"} \cup DirectQuantities
    /\ Cardinality(DOMAIN ret.items) = 13
    /\ \A k \in DOMAIN ret.items : ret.items[k] = systems[prog.self.name][k]
    /\ systems = us
    /\ arg = prog.value
    /\ proxy = NoneV
    /\ ~looked

C5_Witness ==
  /\ DumpCall
  /\ prog.self = Ref("us_Nuclear")
  /\ prog.quantity = Str("mass")
  /\ prog.value = Scalar(One)
  /\ ret.kind = "dict"
  /\ ret.items["density"] = Constant(Lit(1, -39), "fm^-3")

\* source(target).name(v) between two unit systems, past the attribute access
ProxyUse ==
  /\ prog.kind = "sugar"
  /\ isinstance_UnitSystem(prog.target)
  /\ pc \in {"apply", "done"}

\* the outcome of the direct call source(target, name, v)
DirectOutcome ==
  UnitSystem_call(systems, prog.self, prog.target, Str(prog.name),
                  prog.value).ret

\* C6 as stated: for every attribute name, proxy.name is a one-argument
\* converter and proxy.name(v) has the outcome of source(target, name, v).
C6_AsStated ==
  ProxyUse =>
    /\ held.kind = "converter"
    /\ Done => ret = DirectOutcome

\* C6 as amended: for every attribute name that the normal attribute lookup
\* does not resolve (every name but the proxy's own fields source_unit and
\* target_unit), inside or outside the closed quantity set, proxy.name never
\* fails and is a one-argument converter, and proxy.name(v) has the outcome
\* of source(target, name, v), for a missing v too.
C6_ProxyEquivalence ==
  (ProxyUse /\ prog.name \notin {"source_unit", "target_unit"}) =>
    /\ held.kind = "converter"
    /\ Done => ret = DirectOutcome

C6_Witness ==
  /\ ProxyUse
  /\ Done
  /\ prog.self = Ref("us_SI")
  /\ prog.target = Ref("us_GeometricKilometer")
  /\ prog.name = "time"
  /\ prog.value = NDArray(<<1>>, <<Lit(25, -1)>>)
  /\ ret = NDArray(<<1>>, <<Mul(Lit(25, -1), Mul(Atom("c"), Lit(1, -5)))>>)

InvalidEndpoint ==
  {Raise("ValueError", "source_unit must be a UnitSystem"),
   Raise("ValueError", "target_unit must be a UnitSystem")}

\* a proxy construction with an endpoint that is no UnitSystem, past its step
BadConstruction ==
  \/ /\ prog.kind = "ctor"
     /\ pc # "new"
     /\ ~isinstance_UnitSystem(prog.source)
          \/ ~isinstance_UnitSystem(prog.target)
  \/ /\ prog.kind = "sugar" \/ (prog.kind = "call" /\ prog.quantity = NoneV)
     /\ pc # "call"
     /\ prog.target # NoneV
     /\ ~isinstance_UnitSystem(prog.target)

\* C7: constructing a ConversionProxy, directly or through source(target)
\* with no quantity, with a source or a target that is no UnitSystem raises
\* the invalid-endpoint error at construction: the expression ends there, no
\* proxy exists, no attribute was taken and no factor was looked up.
C7_InvalidEndpoint ==
  BadConstruction =>
    /\ Done
    /\ ret \in InvalidEndpoint
    /\ proxy = NoneV
    /\ held = NoneV
    /\ ~looked

C7_Witness ==
  /\ BadConstruction
  /\ prog.kind = "ctor"
  /\ prog.source = Ref("us_CGS")
  /\ prog.target = Obj
  /\ ret = Raise("ValueError", "target_unit must be a UnitSystem")

\* C8: every Constant operation that gives a result gives a Constant whose
\* label is the label of self: the left operand's in a Constant-with-Constant
\* operation, the Constant's own with a plain number on either side.
C8_LabelOfSelf ==
  (Done /\ prog.kind = "const" /\ ~Failed(ret)) =>
    /\ isinstance_Constant(ret)
    /\ ret.unit = prog.self.unit

\* Constant(3, "w") - Constant(2, "u") is Constant(1, "w")
C8_Witness ==
  /\ Done
  /\ prog.kind = "const"
  /\ prog.method = "__sub__"
  /\ prog.self = Constant(Lit(3, 0), "w")
  /\ prog.other = Constant(Lit(2, 0), "u")
  /\ ret = Constant(One, "w")

\* C9: whatever the caller has evaluated so far, every base constant and
\* factor of every system has the value and label construction gave it, and
\* the value object the caller passed is as the caller made it.
C9_Frame ==
  /\ systems = us
  /\ arg = Argument(prog)

\* a list was converted: a new list was returned, the argument is as it was
C9_Witness ==
  /\ Done
  /\ prog.kind = "call"
  /\ prog.value = Sequence("list", <<Lit(-3, 0)>>)
  /\ ret.kind = "list"
  /\ ret # prog.value
  /\ arg = prog.value

\* C10: in every system the density factor is the inverse cube of the length
\* factor, so a density converts by the length conversion factor to the
\* power -3.
C10_NumberDensity ==
  (DirectCall /\ prog.quantity = Str("density")
     /\ prog.value.kind = "scalar") =>
    /\ \A n \in SystemNames :
         systems[n].density.value = PowNum(systems[n].length.value, -3)
    /\ ret = Scalar(Mul(prog.value.x,
                        PowNum(conv_length(systems, prog.self, prog.target),
                               -3)))

====
